---- MODULE Spec2Model ----
(***************************************************************************)
(* A model of substack_scraper.py: the backoff executor                   *)
(* (retry_with_backoff), the window filter (fetch_newsletter_posts), the  *)
(* checkpoint store (save_posts_to_csv, check_existing_newsletter_file,   *)
(* load_existing_posts_from_csv) and the run orchestrator (main).         *)
(***************************************************************************)
EXTENDS Integers, Sequences, FiniteSets, TLC

(***************************************************************************)
(* Program constants.                                                      *)
(***************************************************************************)
DEFAULT_MAX_RETRIES == 8
MAX_BACKOFF_WAIT_TIME == 60

(***************************************************************************)
(* Part 1.  retry_with_backoff.                                            *)
(*                                                                         *)
(* A failure's description str(e) is a sequence of words.  The code        *)
(* lowercases it and looks for three markers in it.                        *)
(***************************************************************************)
lower(w) ==
  CASE w = "Rate" -> "rate"
    [] w = "RATE" -> "rate"
    [] w = "Limit" -> "limit"
    [] w = "Too" -> "too"
    [] w = "Many" -> "many"
    [] w = "Requests" -> "requests"
    [] w = "Not" -> "not"
    [] w = "Found" -> "found"
    [] OTHER -> w

error_str(e) == [k \in 1..Len(e) |-> lower(e[k])]

\* marker in text: the marker occurs as a run of consecutive words
contains(text, marker) ==
  \E k \in 0..(Len(text) - Len(marker)) :
     \A m \in 1..Len(marker) : text[k + m] = marker[m]

is_rate_limit(e) ==
  \/ contains(error_str(e), <<"429">>)
  \/ contains(error_str(e), <<"rate", "limit">>)
  \/ contains(error_str(e), <<"too", "many", "requests">>)

\* The failure descriptions an attempt may raise.
Failures ==
  { <<"429", "Client", "Error">>,
    <<"HTTP", "Rate", "Limit", "exceeded">>,
    <<"Too", "Many", "Requests">>,
    <<"404", "Not", "Found">>,
    <<"Read", "timed", "out">>,
    <<"limit", "rate">> }

RECURSIVE pow2(_)
pow2(n) == IF n = 0 THEN 1 ELSE 2 * pow2(n - 1)

min(a, b) == IF a < b THEN a ELSE b
max(a, b) == IF a > b THEN a ELSE b

wait_time_uncapped(k) == pow2(k)

wait_time(k) == min(pow2(k), MAX_BACKOFF_WAIT_TIME)

NoResult == [kind |-> "none"]
\* what the k-th invocation of func returned
Value(k) == [kind |-> "value", of |-> k]
RateLimited == [kind |-> "Rate limited"]
FailedAfterRetries == [kind |-> "Failed after retries"]
ErrorResult(e) == [kind |-> "Error", text |-> e]


(***************************************************************************)
(* Part 2.  Pure helpers of the pipeline.                                  *)
(***************************************************************************)
\* Bounds of the model.
MaxUrls == 2
MaxListing == 3
MaxRuns == 2

\* timedelta(days=1) in the model's time unit (half days)
Day == 2

MAX_NAME_LEN == 50

\* A text is a sequence of characters.
Unsafe == {"<", ">", ":", "\"", "/", "\\", "|", "?", "*"}
Blank == {"_", " "}

\* line 419: re.sub(r'[<>:"/\\|?*]', '_', name)
replace_unsafe(name) ==
  [k \in 1..Len(name) |-> IF name[k] \in Unsafe THEN "_" ELSE name[k]]

\* line 421: re.sub(r'[_\s]+', '_', s): every run of blanks becomes one "_"
RECURSIVE collapse_blanks(_)
collapse_blanks(s) ==
  IF s = <<>> THEN <<>>
  ELSE IF Head(s) \in Blank
       THEN IF Len(s) > 1 /\ s[2] \in Blank
            THEN collapse_blanks(Tail(s))
            ELSE <<"_">> \o collapse_blanks(Tail(s))
       ELSE <<Head(s)>> \o collapse_blanks(Tail(s))

RECURSIVE lstrip(_, _)
lstrip(s, chars) ==
  IF s # <<>> /\ Head(s) \in chars THEN lstrip(Tail(s), chars) ELSE s

RECURSIVE rstrip(_, _)
rstrip(s, chars) ==
  IF s # <<>> /\ s[Len(s)] \in chars
  THEN rstrip(SubSeq(s, 1, Len(s) - 1), chars) ELSE s

strip(s, chars) == rstrip(lstrip(s, chars), chars)

unknown == <<"u", "n", "k", "n", "o", "w", "n">>

\* lines 413-427
sanitize_filename(name) ==
  LET a == replace_unsafe(name)
      b == collapse_blanks(a)
      c == strip(b, Blank)
      d == IF Len(c) > MAX_NAME_LEN THEN rstrip(c, {"_"}) ELSE c
  IN IF d # <<>> THEN d ELSE unknown

\* A source reference.  form "sub": https://<name>.substack.com,
\* "custom": https://<name>, "handle": https://substack.com/@<name>;
\* post: the reference points at a post (its path contains /p/).
URLs ==
  { [form |-> "sub", name |-> <<"a">>, post |-> FALSE],
    [form |-> "sub", name |-> <<"a">>, post |-> TRUE],
    [form |-> "handle", name |-> <<"a">>, post |-> FALSE],
    [form |-> "custom", name |-> <<"b", ":", "8">>, post |-> FALSE] }

\* lines 140-156
normalize_substack_url(url) ==
  IF url.form = "handle"
  THEN [form |-> "sub", name |-> url.name, post |-> FALSE]
  ELSE IF url.post
       THEN [form |-> url.form, name |-> url.name, post |-> FALSE]
       ELSE url

\* the host of a "sub" reference with an empty subdomain
substack_host == <<".", "s", "u", "b", "s", "t", "a", "c", "k", ".", "c", "o", "m">>

\* lines 430-448: the subdomain of <name>.substack.com, else the whole host
extract_newsletter_name_from_url(url) ==
  LET normalized_url == normalize_substack_url(url)
      newsletter_name == IF normalized_url.form = "sub"
                         THEN IF normalized_url.name # <<>>
                              THEN normalized_url.name
                              ELSE substack_host
                         ELSE normalized_url.name
  IN sanitize_filename(newsletter_name)

\* lines 382-386 and 642-646: substacks/<name>.csv
\* (newsletter_name is bound to its value before safe_name is computed,
\* as the two assignments of lines 382-383 do)
expected_filename(url) ==
  [dir |-> "substacks",
   base |-> CHOOSE safe_name \in
              { sanitize_filename(newsletter_name) :
                  newsletter_name \in {extract_newsletter_name_from_url(url)} } :
              TRUE]

\* line 554: the default of --output
args_output == [dir |-> "", base |-> <<"p", "o", "s", "t", "s">>]

\* line 665
combined_output == [dir |-> "", base |-> <<"c", "o", "m", "b", "i", "n", "e", "d">>]

\* lines 640-649: where main saves the posts of one newsletter
individual_output(urls, url) ==
  IF Len(urls) > 1 THEN expected_filename(url) ELSE args_output

\* Values of a record: a Python value with its type; the csv module writes
\* str(value) and reads every cell back as a string.
Str(s) == [t |-> "str", v |-> s]
Num(n) == [t |-> "num", v |-> ToString(n)]
cell(x) == [t |-> "str", v |-> x.v]

\* line 374: writer.writerow(post)
writerow(post) == [f \in DOMAIN post |-> cell(post[f])]

rows_of(posts) == [k \in 1..Len(posts) |-> writerow(posts[k])]

\* Subscriber counts are texts; UNKNOWN is the text returned at line 186.
UNKNOWN == <<"UNKNOWN">>
Digits == {"0", "1", "2", "3", "4", "5", "6", "7", "8", "9"}

digit(c) ==
  CASE c = "0" -> 0 [] c = "1" -> 1 [] c = "2" -> 2 [] c = "3" -> 3
    [] c = "4" -> 4 [] c = "5" -> 5 [] c = "6" -> 6 [] c = "7" -> 7
    [] c = "8" -> 8 [] c = "9" -> 9

RECURSIVE number(_)
number(s) ==
  IF s = <<>> THEN 0 ELSE 10 * number(SubSeq(s, 1, Len(s) - 1)) + digit(s[Len(s)])

\* line 341: free_subscriber_count.replace(',', '')
remove_commas(s) == SelectSeq(s, LAMBDA c : c # ",")

\* line 343: float() accepts the text
is_numeric(s) == s # <<>> /\ \A k \in 1..Len(s) : s[k] \in Digits

hundredths_truncated(likes, n) == (10000 * likes) \div n

\* round(100 * likes / n, 2) in hundredths, ties to even
hundredths(likes, n) ==
  LET q == (10000 * likes) \div n
      r == (10000 * likes) % n
  IN IF 2 * r < n THEN q
     ELSE IF 2 * r > n THEN q + 1
     ELSE IF q % 2 = 0 THEN q ELSE q + 1

Raised == [t |-> "raised", v |-> ""]

\* lines 336-347; Raised stands for the ValueError / ZeroDivisionError raised
calculate_likes_per_free_subscriber(likes, free_subscriber_count) ==
  IF free_subscriber_count = UNKNOWN THEN Str("UNKNOWN")
  ELSE LET subscriber_count == remove_commas(free_subscriber_count)
       IN IF ~is_numeric(subscriber_count) THEN Raised
          ELSE IF number(subscriber_count) = 0 THEN Raised
          ELSE [t |-> "float", v |-> ToString(hundredths(likes, number(subscriber_count)))]

\* A date text of a post: its layout and the instant it denotes.
\* lines 68-109: None for a text no layout accepts; an ISO text without an
\* offset gives a naive datetime, every other accepted text an aware one.
parse_datetime(date_str) ==
  CASE date_str.layout = "iso_utc" -> [kind |-> "aware", t |-> date_str.t]
    [] date_str.layout = "iso_naive" -> [kind |-> "naive", t |-> date_str.t]
    [] date_str.layout = "ymd_hms" -> [kind |-> "aware", t |-> date_str.t]
    [] OTHER -> [kind |-> "None", t |-> 0]

\* line 306: strftime('%Y-%m-%d %H:%M:%S')
strftime(post_date) == ToString(post_date.t)

\* line 233
to_date_inclusive(to_date) == to_date + Day

\* line 289
in_window(from_date, to_date, t) ==
  from_date <= t /\ t < to_date_inclusive(to_date)

older_than_window_never(from_date, t) == FALSE

\* line 317
older_than_window(from_date, t) == t < from_date

\* line 315
cap_reached(max_posts, filtered_posts) ==
  max_posts # 0 /\ Len(filtered_posts) >= max_posts

\* lines 297-311
post_info(url, free_subscriber_count, post_data, post_date, j) ==
  [newsletter_name |-> Str(extract_newsletter_name_from_url(normalize_substack_url(url))),
   free_subscriber_count |-> Str(free_subscriber_count),
   likes |-> Num(post_data.likes),
   likes_per_free_subscriber |->
     calculate_likes_per_free_subscriber(post_data.likes, free_subscriber_count),
   post_date |-> Str(strftime(post_date)),
   post_id |-> Num(j)]

\* lines 350-376.  fault: what goes wrong while saving; "open": ensure_directory
\* or open() raises and the file is untouched; "header": the write of the
\* header raises after open() truncated the file; "row": the write of row
\* k+1 raises after the header and k rows.
save_posts_to_csv(fs, posts, output_file, fault) ==
  CASE fault.f = "none" ->
         (output_file :> [header |-> TRUE, rows |-> rows_of(posts)]) @@ fs
    [] fault.f = "open" -> fs
    [] fault.f = "header" ->
         (output_file :> [header |-> FALSE, rows |-> <<>>]) @@ fs
    [] fault.f = "row" ->
         (output_file :> [header |-> TRUE,
                          rows |-> SubSeq(rows_of(posts), 1, fault.k)]) @@ fs

SaveFaults(posts) ==
  {[f |-> x, k |-> 0] : x \in {"none", "open", "header"}}
    \cup {[f |-> "row", k |-> k] : k \in 0..(Len(posts) - 1)}

\* lines 379-395
check_existing_newsletter_file(fs, url) ==
  expected_filename(url) \in DOMAIN fs

load_reads_header_as_row(fs, csv_file, readable) ==
  IF readable THEN <<fs[csv_file].header>> \o fs[csv_file].rows ELSE <<>>

\* lines 398-410: the rows of the file, or [] when reading it raises
load_existing_posts_from_csv(fs, csv_file, readable) ==
  IF readable THEN fs[csv_file].rows ELSE <<>>


(***************************************************************************)
(* Part 3.  main and fetch_newsletter_posts.                               *)
(***************************************************************************)
VARIABLES
  args,                   \* the parsed command line: urls, from_date, to_date,
                          \* max_posts (after the default is applied), force_rescrape
  upstream,               \* what the remote platform can answer in this world
  files,                  \* the disk: path -> [header, rows]
  run,                    \* the number of the invocation of the command
  pc,                     \* the position of main
  i,                      \* main: the index (from 1) of the url being processed
  all_posts,              \* main, line 599
  skipped_newsletters,    \* main, line 602
  processed_newsletters,  \* main, line 603
  status,                 \* per entry of urls: Pending, Skipped, Processed, Failed
  free_subscriber_count,  \* fetch_newsletter_posts, line 206
  posts,                  \* fetch_newsletter_posts: the length of the listing, line 220
  j,                      \* fetch_newsletter_posts: the index of the post in the loop
  redirected,             \* the post of the loop was replaced by Post(redirected_url)
  filtered_posts,         \* fetch_newsletter_posts, line 235
  scraped,                \* main: posts, the value fetch_newsletter_posts returned
  net,                    \* history: the network operations of this run
  fetched,                \* history: the listing indices fetched in this scan
  evaluated,              \* history: the post the loop handled last and its date
  kept,                   \* history: the listing indices of filtered_posts
  stops,                  \* history: the listing indices of the posts dated before from_date
  listed,                 \* history: what the listing call of the current url gave
  prev                    \* history: how the previous invocation ended

inputVars == <<args, upstream>>
loopVars == <<i, all_posts, skipped_newsletters, processed_newsletters, status>>
localVars == <<free_subscriber_count, posts, j, redirected, filtered_posts>>
scanHistory == <<kept, stops, listed, fetched, evaluated>>
fetchVars == <<localVars, scanHistory>>
mainVars == <<inputVars, files, run, pc, loopVars, fetchVars, scraped, net, prev>>

BadDate == -1

NotListed == [kind |-> "no", n |-> 0]
NoPost == [post |-> 0, kind |-> "no", t |-> 0]

NoPrev == [ended |-> "never", rows |-> <<>>, status |-> <<>>]

MainIdle ==
  /\ args = [urls |-> <<>>, user |-> FALSE, from_date |-> 0, to_date |-> 0,
             max_posts |-> 0, force_rescrape |-> FALSE]
  /\ upstream = [dates |-> {}, layouts |-> {}, likes |-> {}, counts |-> {},
                 lengths |-> {}]
  /\ files = <<>>
  /\ run = 0
  /\ pc = "idle"
  /\ i = 0
  /\ all_posts = <<>>
  /\ skipped_newsletters = <<>>
  /\ processed_newsletters = <<>>
  /\ status = <<>>
  /\ free_subscriber_count = <<>>
  /\ posts = 0
  /\ j = 0
  /\ redirected = FALSE
  /\ filtered_posts = <<>>
  /\ scraped = <<>>
  /\ net = {}
  /\ fetched = {}
  /\ evaluated = NoPost
  /\ kept = <<>>
  /\ stops = <<>>
  /\ listed = NotListed
  /\ prev = NoPrev

(***************************************************************************)
(* The pure helpers, called on their own.                                  *)
(***************************************************************************)
VARIABLES
  call,                   \* the helper called and its arguments
  ret                     \* what the call returned, once it has

helperVars == <<call, ret>>

NoCall == [fn |-> "none", text |-> <<>>, form |-> "sub", likes |-> 0]
NotReturned == [done |-> FALSE, v |-> <<>>]

HelperIdle ==
  /\ call = NoCall
  /\ ret = NotReturned

(***************************************************************************)
(* Part 4.  The retry_with_backoff machine.                                *)
(***************************************************************************)
VARIABLES
  max_retries,  \* retry_with_backoff: the parameter max_retries
  attempt,      \* retry_with_backoff: the loop variable
  invocations,  \* what each invocation of func did: "ok", or the failure raised
  sleeps,       \* the time.sleep calls made by the call, in order
  result,       \* the value returned, NoResult while the call runs
  rpc           \* "idle", "loop" (the call runs), "returned"

retryVars == <<max_retries, attempt, invocations, sleeps, result, rpc>>


RetryIdle ==
  /\ max_retries = 0
  /\ attempt = 0
  /\ invocations = <<>>
  /\ sleeps = <<>>
  /\ result = NoResult
  /\ rpc = "idle"

\* line 40: the call starts with any max_retries in 0..DEFAULT_MAX_RETRIES
InitRetry ==
  /\ max_retries \in 0..DEFAULT_MAX_RETRIES
  /\ attempt = 0
  /\ invocations = <<>>
  /\ sleeps = <<>>
  /\ result = NoResult
  /\ rpc = "loop"
  /\ MainIdle
  /\ HelperIdle

InLoop == rpc = "loop" /\ attempt < max_retries

\* line 48: attempts are left after this one
attempts_remain_off_by_one == attempt < max_retries

attempts_remain == attempt < max_retries - 1

Return(v) ==
  /\ result' = v
  /\ rpc' = "returned"

\* line 42: func() returns
AttemptSucceeds ==
  /\ InLoop
  /\ invocations' = Append(invocations, <<"ok">>)
  /\ Return(Value(Len(invocations) + 1))
  /\ UNCHANGED <<max_retries, attempt, sleeps>>
  /\ UNCHANGED mainVars
  /\ UNCHANGED helperVars

\* lines 47-53: a rate-limit failure with attempts left: sleep, then continue
AttemptRateLimitedRetry ==
  /\ InLoop
  /\ \E e \in Failures :
       /\ is_rate_limit(e)
       /\ attempts_remain
       /\ invocations' = Append(invocations, e)
       /\ sleeps' = Append(sleeps, wait_time(attempt))
       /\ attempt' = attempt + 1
  /\ UNCHANGED <<max_retries, result, rpc>>
  /\ UNCHANGED mainVars
  /\ UNCHANGED helperVars

\* lines 54-55: a rate-limit failure on the last attempt
AttemptRateLimitedLast ==
  /\ InLoop
  /\ \E e \in Failures :
       /\ is_rate_limit(e)
       /\ ~attempts_remain
       /\ invocations' = Append(invocations, e)
       /\ Return(RateLimited)
  /\ UNCHANGED <<max_retries, attempt, sleeps>>
  /\ UNCHANGED mainVars
  /\ UNCHANGED helperVars

AttemptFails_retries ==
  /\ InLoop
  /\ \E e \in Failures :
       /\ ~is_rate_limit(e)
       /\ invocations' = Append(invocations, e)
       /\ attempt' = attempt + 1
  /\ UNCHANGED <<max_retries, sleeps, result, rpc>>
  /\ UNCHANGED mainVars
  /\ UNCHANGED helperVars

\* lines 56-58: any other failure is not retried
AttemptFails ==
  /\ InLoop
  /\ \E e \in Failures :
       /\ ~is_rate_limit(e)
       /\ invocations' = Append(invocations, e)
       /\ Return(ErrorResult(e))
  /\ UNCHANGED <<max_retries, attempt, sleeps>>
  /\ UNCHANGED mainVars
  /\ UNCHANGED helperVars

\* line 60: the loop ran out without returning (only when max_retries = 0)
LoopExhausted ==
  /\ rpc = "loop"
  /\ ~(attempt < max_retries)
  /\ Return(FailedAfterRetries)
  /\ UNCHANGED <<max_retries, attempt, invocations, sleeps>>
  /\ UNCHANGED mainVars
  /\ UNCHANGED helperVars

NextRetry ==
  \/ AttemptSucceeds
  \/ AttemptRateLimitedRetry
  \/ AttemptRateLimitedLast
  \/ AttemptFails
  \/ LoopExhausted



\* What a start of the command sets, whatever the disk holds.
StartOfRun ==
  /\ pc = "args"
  /\ i = 1
  /\ all_posts = <<>>
  /\ skipped_newsletters = <<>>
  /\ processed_newsletters = <<>>
  /\ status = [k \in 1..Len(args.urls) |-> "Pending"]
  /\ free_subscriber_count = <<>>
  /\ posts = 0
  /\ j = 0
  /\ redirected = FALSE
  /\ filtered_posts = <<>>
  /\ scraped = <<>>
  /\ net = {}
  /\ fetched = {}
  /\ evaluated = NoPost
  /\ kept = <<>>
  /\ stops = <<>>
  /\ listed = NotListed

UrlLists == UNION {[1..n -> URLs] : n \in 1..MaxUrls}

\* lines 498-511: a profile page lists publications, each by its custom
\* domain or its subdomain; the list is empty when the page could not be
\* fetched or parsed (lines 472-474, 484-486, 494-496, 516-521)
ProfileLists ==
  UNION {[1..n -> {x \in URLs : x.form \in {"sub", "custom"} /\ ~x.post}] :
           n \in 0..MaxUrls}

\* lines 583-594: the urls main works on come from --url or --urls (user
\* is FALSE; a file may hold no valid url) or from the profile of --user
Sources ==
  {[user |-> FALSE, urls |-> u] : u \in UrlLists \cup {<<>>}}
    \cup {[user |-> TRUE, urls |-> u] : u \in ProfileLists}

RateLimitedText == <<"Rate limited">>
ErrorText == <<"Error: ", "404">>

\* The runs of the orchestrator: one or several urls, a fixed window, and an
\* upstream whose posts are dated before the window or at its start.
Init ==
  /\ \E src \in Sources, f \in {BadDate, 2}, t \in {BadDate, 2, 3},
        force \in BOOLEAN :
       args = [urls |-> src.urls, user |-> src.user, from_date |-> f,
               to_date |-> t, max_posts |-> 1, force_rescrape |-> force]
  /\ upstream = [dates |-> {1, 2}, layouts |-> {"iso_utc"}, likes |-> {1},
                 counts |-> {<<"2", "0", "0">>, RateLimitedText},
                 lengths |-> 0..2]
  /\ files = <<>>
  /\ run = 1
  /\ prev = NoPrev
  /\ StartOfRun
  /\ RetryIdle
  /\ HelperIdle

url == args.urls[i]
newsletter_url == normalize_substack_url(url)

\* line 238: 'substack.com/@' in original_newsletter_url
is_handle_url == url.form = "handle"

\* A network operation: the url it is made for, what it asks, and whether
\* the code makes it through retry_with_backoff (lines 188, 220, 251, 269)
NetOp(op) == [src |-> i, op |-> op, through |-> "retry_with_backoff"]

\* line 460: requests.get of the profile page, called directly
ProfileOp == [src |-> 0, op |-> "profile", through |-> "direct"]

SetLocals(c, n, k, r, fp) ==
  /\ free_subscriber_count' = c
  /\ posts' = n
  /\ j' = k
  /\ redirected' = r
  /\ filtered_posts' = fp

ResetHistory ==
  /\ kept' = <<>>
  /\ stops' = <<>>
  /\ listed' = NotListed
  /\ fetched' = {}
  /\ evaluated' = NoPost

date_error_allows_equal(a) ==
  \/ a.from_date = BadDate
  \/ a.to_date = BadDate
  \/ a.from_date > a.to_date

\* lines 563-574: parse_datetime raises ValueError for a missing or
\* unparseable date, and line 570 for from_date >= to_date
date_error(a) ==
  \/ a.from_date = BadDate
  \/ a.to_date = BadDate
  \/ a.from_date >= a.to_date

\* lines 563-594: the dates are validated, then the urls are obtained: from
\* the command line or the file (no valid url: return at line 594), or,
\* for --user, from the profile page
ParseArgs ==
  /\ pc = "args"
  /\ pc' = IF date_error(args) THEN "config_error"
           ELSE IF args.user THEN "profile"
           ELSE IF args.urls = <<>> THEN "no_urls"
           ELSE "loop"
  /\ UNCHANGED <<inputVars, files, run, loopVars, fetchVars, scraped, net, prev>>
  /\ UNCHANGED retryVars
  /\ UNCHANGED helperVars

\* lines 585-589 and 451-521: get_newsletters_from_profile fetches the
\* profile page once; args.urls is what it returns
ResolveProfile ==
  /\ pc = "profile"
  /\ net' = net \cup {ProfileOp}
  /\ pc' = "loop"
  /\ UNCHANGED <<inputVars, files, run, loopVars, fetchVars, scraped, prev>>
  /\ UNCHANGED retryVars
  /\ UNCHANGED helperVars

\* lines 610-622: the checkpoint exists and force-rescrape is off.  (posts
\* of line 625 is dead here until it is assigned again: it is cleared.)
SkipNewsletter ==
  /\ pc = "loop"
  /\ i <= Len(args.urls)
  /\ ~args.force_rescrape
  /\ check_existing_newsletter_file(files, url)
  /\ \E readable \in BOOLEAN :
       all_posts' = all_posts \o
         load_existing_posts_from_csv(files, expected_filename(url), readable)
  /\ skipped_newsletters' = Append(skipped_newsletters, url)
  /\ status' = [status EXCEPT ![i] = "Skipped"]
  /\ i' = i + 1
  /\ scraped' = <<>>
  /\ ResetHistory
  /\ UNCHANGED <<inputVars, files, run, pc, processed_newsletters, localVars,
                 net, prev>>
  /\ UNCHANGED retryVars
  /\ UNCHANGED helperVars

\* lines 624-625 and 193-202: fetch_newsletter_posts is entered
StartFetch ==
  /\ pc = "loop"
  /\ i <= Len(args.urls)
  /\ args.force_rescrape \/ ~check_existing_newsletter_file(files, url)
  /\ pc' = "subscribers"
  /\ scraped' = <<>>
  /\ SetLocals(<<>>, 0, 0, FALSE, <<>>)
  /\ ResetHistory
  /\ UNCHANGED <<inputVars, files, run, loopVars, net, prev>>
  /\ UNCHANGED retryVars
  /\ UNCHANGED helperVars

\* lines 625-634: fetch_newsletter_posts returns r to main (its locals are
\* gone), and main extends all_posts and records the url as processed
\* before it saves
ReturnToMain(r) ==
  /\ scraped' = r
  /\ all_posts' = all_posts \o r
  /\ processed_newsletters' = Append(processed_newsletters, url)
  /\ pc' = "save"
  /\ SetLocals(<<>>, 0, 0, FALSE, <<>>)
  /\ UNCHANGED <<i, skipped_newsletters, status>>

\* lines 204-207: the subscriber count, or the sentinel of retry_with_backoff
GetSubscriberCount ==
  /\ pc = "subscribers"
  /\ \E c \in upstream.counts : SetLocals(c, 0, 0, FALSE, <<>>)
  /\ net' = net \cup {NetOp("subscribers")}
  /\ pc' = "posts"
  /\ UNCHANGED <<inputVars, files, run, loopVars, scanHistory, scraped, prev>>
  /\ UNCHANGED retryVars
  /\ UNCHANGED helperVars

\* lines 331-333: an exception outside the loop's own handlers is caught and
\* the function returns []
FetchRaises ==
  /\ pc \in {"subscribers", "posts"}
  /\ listed' = [kind |-> "raised", n |-> 0]
  /\ UNCHANGED <<kept, stops, fetched, evaluated>>
  /\ ReturnToMain(<<>>)
  /\ UNCHANGED <<inputVars, files, run, net, prev>>
  /\ UNCHANGED retryVars
  /\ UNCHANGED helperVars

PostsReplies ==
  {[kind |-> "posts", n |-> n] : n \in upstream.lengths}
    \cup {[kind |-> k, n |-> 0] : k \in {"Rate limited", "Error"}}

\* lines 216-230: the listing, or a sentinel, or an empty listing
GetPosts ==
  /\ pc = "posts"
  /\ net' = net \cup {NetOp("posts")}
  /\ \E reply \in PostsReplies :
       /\ listed' = reply
       /\ IF reply.kind # "posts" \/ reply.n = 0
          THEN ReturnToMain(<<>>)
          ELSE /\ SetLocals(free_subscriber_count, reply.n, 1, FALSE, <<>>)
               /\ pc' = "scan"
               /\ UNCHANGED <<loopVars, scraped>>
  /\ UNCHANGED <<inputVars, files, run, prev, kept, stops, fetched, evaluated>>
  /\ UNCHANGED retryVars
  /\ UNCHANGED helperVars

Continue_breaks(fp) == ReturnToMain(fp)

Continue_same_post(fp) ==
  /\ SetLocals(free_subscriber_count, posts, j, FALSE, fp)
  /\ pc' = "scan"
  /\ UNCHANGED <<loopVars, scraped>>

\* the for loop of line 236 goes on to the next post, or ends (lines 326-329)
Continue(fp) ==
  IF j < posts
  THEN /\ SetLocals(free_subscriber_count, posts, j + 1, FALSE, fp)
       /\ pc' = "scan"
       /\ UNCHANGED <<loopVars, scraped>>
  ELSE ReturnToMain(fp)

\* break: lines 316 and 320, then lines 326-329
Break(fp) == ReturnToMain(fp)

\* lines 238-262: the redirect lookup of a post of an @handle reference
FollowRedirect ==
  /\ pc = "scan"
  /\ is_handle_url
  /\ ~redirected
  /\ net' = net \cup {NetOp("redirect")}
  /\ fetched' = fetched \cup {j}
  /\ UNCHANGED <<kept, stops, listed, evaluated>>
  /\ \E ok \in BOOLEAN :
       IF ok
       THEN /\ SetLocals(free_subscriber_count, posts, j, TRUE, filtered_posts)
            /\ UNCHANGED <<pc, loopVars, scraped>>
       ELSE Continue(filtered_posts)
  /\ UNCHANGED <<inputVars, files, run, prev>>
  /\ UNCHANGED retryVars
  /\ UNCHANGED helperVars

TimedLayouts == {"iso_utc", "iso_naive", "ymd_hms"}

DateTexts ==
  {[layout |-> l, t |-> t] : l \in TimedLayouts \cap upstream.layouts, t \in upstream.dates}
    \cup {[layout |-> l, t |-> 0] : l \in {"garbage", "missing"} \cap upstream.layouts}

\* what post.get_metadata() gives through retry_with_backoff: a sentinel,
\* nothing, or the post's data
MetadataReplies ==
  {[kind |-> k, date_str |-> [layout |-> "missing", t |-> 0], likes |-> 0] :
     k \in {"Rate limited", "Error", "empty"}}
    \cup {[kind |-> "data", date_str |-> d, likes |-> l] :
            d \in DateTexts, l \in upstream.likes}

\* lines 289-320: what the loop does with a post whose date was parsed
FilterPost(post_data, post_date) ==
  IF in_window(args.from_date, args.to_date, post_date.t)
  THEN LET info == post_info(url, free_subscriber_count, post_data, post_date, j)
       IN IF info.likes_per_free_subscriber = Raised
          THEN \* the exception is caught at line 322
               /\ kept' = kept
               /\ Continue(filtered_posts)
          ELSE /\ kept' = Append(kept, j)
               /\ IF cap_reached(args.max_posts, Append(filtered_posts, info))
                  THEN Break(Append(filtered_posts, info))
                  ELSE Continue(Append(filtered_posts, info))
  ELSE IF older_than_window(args.from_date, post_date.t)
       THEN /\ kept' = kept
            /\ Break(filtered_posts)
       ELSE /\ kept' = kept
            /\ Continue(filtered_posts)

\* lines 264-324: one post of the listing
ProcessPost ==
  /\ pc = "scan"
  /\ is_handle_url => redirected
  /\ net' = net \cup {NetOp("metadata")}
  /\ fetched' = fetched \cup {j}
  /\ listed' = listed
  /\ \E post_data \in MetadataReplies :
       LET post_date == parse_datetime(post_data.date_str)
           outcome == IF post_data.kind # "data" THEN post_data.kind
                      ELSE IF post_data.date_str.layout = "missing" THEN "missing"
                      ELSE post_date.kind
       IN /\ evaluated' = [post |-> j, kind |-> outcome,
                           t |-> IF outcome \in {"aware", "naive"}
                                 THEN post_date.t ELSE 0]
          /\ stops' = IF outcome = "aware" /\ post_date.t < args.from_date
                      THEN Append(stops, j) ELSE stops
          /\ IF outcome # "aware"
             THEN \* lines 271, 278, 284; a naive date raises TypeError at
                  \* line 289, caught at line 322
                  /\ kept' = kept
                  /\ Continue(filtered_posts)
             ELSE FilterPost(post_data, post_date)
  /\ UNCHANGED <<inputVars, files, run, prev>>
  /\ UNCHANGED retryVars
  /\ UNCHANGED helperVars

pc_after_newsletter_uncaught(fault) ==
  IF fault.f = "none" THEN "loop" ELSE "crashed"

\* lines 653-658: after the save, or after the handler of line 655, the
\* loop goes on
pc_after_newsletter(fault) == "loop"

\* lines 636-658: the newsletter's posts are saved; a fault raised by the
\* save is caught at line 655 and the loop goes on.  The history of the
\* fetch ends here.
SaveNewsletter ==
  /\ pc = "save"
  /\ \E fault \in SaveFaults(scraped) :
       /\ files' = save_posts_to_csv(files, scraped,
                                     individual_output(args.urls, url), fault)
       /\ status' = [status EXCEPT ![i] = IF fault.f = "none" THEN "Processed"
                                          ELSE "Failed"]
       /\ pc' = pc_after_newsletter(fault)
  /\ i' = i + 1
  /\ ResetHistory
  /\ UNCHANGED <<inputVars, run, all_posts, skipped_newsletters,
                 processed_newsletters, localVars, scraped, net, prev>>
  /\ UNCHANGED retryVars
  /\ UNCHANGED helperVars

\* lines 660-669: several urls: the combined file; a fault here is not caught
SaveCombined ==
  /\ pc = "loop"
  /\ i > Len(args.urls)
  /\ Len(args.urls) > 1
  /\ \E fault \in SaveFaults(all_posts) :
       /\ files' = save_posts_to_csv(files, all_posts, combined_output, fault)
       /\ pc' = IF fault.f = "none" THEN "done" ELSE "crashed"
  /\ UNCHANGED <<inputVars, run, loopVars, fetchVars, scraped, net, prev>>
  /\ UNCHANGED retryVars
  /\ UNCHANGED helperVars

\* line 661 is false: one url, no combined file
Finish ==
  /\ pc = "loop"
  /\ i > Len(args.urls)
  /\ ~(Len(args.urls) > 1)
  /\ pc' = "done"
  /\ UNCHANGED <<inputVars, files, run, loopVars, fetchVars, scraped, net, prev>>
  /\ UNCHANGED retryVars
  /\ UNCHANGED helperVars

\* The same command is run again: the disk is what the last run left, the
\* memory is fresh.
Reinvoke ==
  /\ pc = "done"
  /\ run < MaxRuns
  /\ run' = run + 1
  /\ prev' = [ended |-> pc, rows |-> rows_of(all_posts), status |-> status]
  /\ UNCHANGED <<inputVars, files>>
  /\ pc' = "args"
  /\ i' = 1
  /\ all_posts' = <<>>
  /\ skipped_newsletters' = <<>>
  /\ processed_newsletters' = <<>>
  /\ status' = [k \in 1..Len(args.urls) |-> "Pending"]
  /\ scraped' = <<>>
  /\ net' = {}
  /\ SetLocals(<<>>, 0, 0, FALSE, <<>>)
  /\ ResetHistory
  /\ UNCHANGED retryVars
  /\ UNCHANGED helperVars

Next ==
  \/ ParseArgs
  \/ ResolveProfile
  \/ SkipNewsletter
  \/ StartFetch
  \/ GetSubscriberCount
  \/ FetchRaises
  \/ GetPosts
  \/ FollowRedirect
  \/ ProcessPost
  \/ SaveNewsletter
  \/ SaveCombined
  \/ Finish
  \/ Reinvoke

\* The scans of one listing: one url, every window, cap and date.
MaxTime == 7
MaxCap == 2
MaxLikes == 1

InitScan ==
  /\ args \in [urls : {<<u>> : u \in {x \in URLs : ~x.post}}, user : {FALSE},
               from_date : {2, 3}, to_date : {3, 4},
               max_posts : 0..MaxCap, force_rescrape : {FALSE}]
  /\ upstream = [dates |-> 0..MaxTime,
                 layouts |-> TimedLayouts \cup {"garbage", "missing"},
                 likes |-> 0..MaxLikes,
                 counts |-> {UNKNOWN, <<"2", "0", "0">>, <<"1", ",", "0", "0", "0">>,
                             <<"1", "K", "+">>, <<"0">>, RateLimitedText, ErrorText},
                 lengths |-> 0..MaxListing]
  /\ files = <<>>
  /\ run = 1
  /\ prev = NoPrev
  /\ StartOfRun
  /\ RetryIdle
  /\ HelperIdle

NextScan ==
  \/ ParseArgs
  \/ StartFetch
  \/ GetSubscriberCount
  \/ FetchRaises
  \/ GetPosts
  \/ FollowRedirect
  \/ ProcessPost

\* The helpers on their own inputs.
MaxShortName == 3
LongNameLen == 51
MaxRatioLikes == 5

NameAlphabet == {"a", "_", " ", ":"}

\* every short name over the alphabet, and names of letters only around
\* the length of line 425
Names ==
  UNION {[1..n -> NameAlphabet] : n \in 0..MaxShortName}
    \cup {[k \in 1..n |-> "a"] : n \in (LongNameLen - 2)..LongNameLen}

\* texts the subscriber count can be: line 186, the digits of the page
\* (lines 179, 184), and the sentinels of retry_with_backoff
Counts ==
  {UNKNOWN, <<"0">>, <<"1">>, <<"3">>, <<"8">>, <<"2", "0", "0">>,
   <<"8", "0", "0">>, <<"1", ",", "0", "0", "0">>, <<"1", "K", "+">>,
   RateLimitedText, ErrorText}

Calls ==
  {[fn |-> "sanitize_filename", text |-> n, form |-> "sub", likes |-> 0] :
     n \in Names}
    \cup {[fn |-> "extract_newsletter_name_from_url", text |-> n, form |-> f,
           likes |-> 0] : n \in Names, f \in {"sub", "custom", "handle"}}
    \cup {[fn |-> "calculate_likes_per_free_subscriber", text |-> c,
           form |-> "sub", likes |-> l] : c \in Counts, l \in 0..MaxRatioLikes}

InitHelpers ==
  /\ call \in Calls
  /\ ret = NotReturned
  /\ MainIdle
  /\ RetryIdle

Returns(v) ==
  /\ ~ret.done
  /\ ret' = [done |-> TRUE, v |-> v]
  /\ UNCHANGED call
  /\ UNCHANGED mainVars
  /\ UNCHANGED retryVars

CallSanitize ==
  /\ call.fn = "sanitize_filename"
  /\ Returns(sanitize_filename(call.text))

CallExtract ==
  /\ call.fn = "extract_newsletter_name_from_url"
  /\ Returns(extract_newsletter_name_from_url(
               [form |-> call.form, name |-> call.text, post |-> FALSE]))

CallRatio ==
  /\ call.fn = "calculate_likes_per_free_subscriber"
  /\ Returns(calculate_likes_per_free_subscriber(call.likes, call.text))

NextHelpers ==
  \/ CallSanitize
  \/ CallExtract
  \/ CallRatio

vars == <<retryVars, mainVars, helperVars>>

Spec == Init /\ [][Next]_vars

SpecRetry == InitRetry /\ [][NextRetry]_vars

SpecScan == InitScan /\ [][NextScan]_vars

SpecHelpers == InitHelpers /\ [][NextHelpers]_vars

\* The runs and the calls of retry_with_backoff whose end is checked: a
\* run over one of a few source lists, or one call.
TerminatesUrlLists ==
  { <<>>,
    << [form |-> "handle", name |-> <<"a">>, post |-> FALSE] >>,
    << [form |-> "custom", name |-> <<"b", ":", "8">>, post |-> FALSE] >>,
    << [form |-> "sub", name |-> <<"a">>, post |-> FALSE],
       [form |-> "sub", name |-> <<"a">>, post |-> TRUE] >> }

InitTerminates ==
  \/ /\ Init
     /\ args.urls \in TerminatesUrlLists
     /\ args.from_date = 2
     /\ ~args.force_rescrape
  \/ InitRetry

\* a step of the program itself (Reinvoke is the user's)
RunStep ==
  \/ ParseArgs
  \/ ResolveProfile
  \/ SkipNewsletter
  \/ StartFetch
  \/ GetSubscriberCount
  \/ FetchRaises
  \/ GetPosts
  \/ FollowRedirect
  \/ ProcessPost
  \/ SaveNewsletter
  \/ SaveCombined
  \/ Finish

NextTerminates ==
  \/ Next
  \/ NextRetry

\* The program is sequential and every network call returns or fails in
\* finite time, so a step that can be taken is taken.
SpecTerminates ==
  /\ InitTerminates
  /\ [][NextTerminates]_vars
  /\ WF_vars(RunStep)
  /\ WF_vars(NextRetry)

(***************************************************************************)
(* Part 5.  The properties.                                                *)
(***************************************************************************)
Terminal == {"Skipped", "Processed", "Failed"}

\* main is at the head of the loop, force-rescrape is off and the
\* checkpoint of the url it reaches exists
AtExistingCheckpoint ==
  /\ pc = "loop"
  /\ i <= Len(args.urls)
  /\ ~args.force_rescrape
  /\ expected_filename(url) \in DOMAIN files

NoNetworkForSkipped ==
  \A k \in DOMAIN status :
     status[k] = "Skipped" => \A op \in net : op.src # k

\* C1 as stated: a source whose checkpoint exists when the orchestrator
\* reaches it (force-rescrape off) becomes Skipped, no network operation is
\* performed for it, and the aggregate grows by exactly the rows of the
\* checkpoint, in stored order.
C1_SkipAddsExactlyTheRows ==
  [][AtExistingCheckpoint =>
       /\ status' = [status EXCEPT ![i] = "Skipped"]
       /\ net' = net
       /\ all_posts' = all_posts \o files[expected_filename(url)].rows]_vars

\* C1 amended: as C1, but the aggregate grows by exactly the rows of the
\* checkpoint, in stored order, or by nothing when reading the checkpoint
\* raises (load_existing_posts_from_csv then returns []).
C1_SkipAddsTheRowsOrNothing ==
  /\ []NoNetworkForSkipped
  /\ [][AtExistingCheckpoint =>
          /\ status' = [status EXCEPT ![i] = "Skipped"]
          /\ net' = net
          /\ \/ all_posts' = all_posts \o files[expected_filename(url)].rows
             \/ all_posts' = all_posts]_vars

\* a skipped source has put the rows of a non-empty checkpoint in the aggregate
C1_Witness ==
  /\ Len(status) = 2
  /\ status[1] = "Skipped"
  /\ processed_newsletters = <<>>
  /\ all_posts # <<>>
  /\ all_posts = files[expected_filename(args.urls[1])].rows

\* C2: every source that reached Processed has its checkpoint at the place
\* the skip check consults, whatever the number of sources, so that the
\* next invocation without force-rescrape skips it.
C2_ProcessedIsCheckpointed ==
  /\ \A k \in DOMAIN status :
        status[k] = "Processed" =>
          check_existing_newsletter_file(files, args.urls[k])
  /\ (run > 1 /\ ~args.force_rescrape) =>
        \A k \in DOMAIN status :
           (prev.status[k] = "Processed" /\ status[k] # "Pending")
             => status[k] = "Skipped"

\* C3: a second run with the same inputs and force-rescrape off ends with
\* the same combined record set as the first, every source Skipped and no
\* network operation.
C3_SecondRunIdentical ==
  (run = 2 /\ pc = "done" /\ ~args.force_rescrape) =>
     /\ rows_of(all_posts) = prev.rows
     /\ net = {}
     /\ \A k \in DOMAIN status : status[k] = "Skipped"

\* C4: when the processing of a source ends in failure (fetch_newsletter_posts
\* caught an exception, or the save raised), the checkpoint store is unchanged.
C4_FailureLeavesStore ==
  [][(pc = "save" /\ (listed.kind = "raised" \/ status'[i] = "Failed"))
       => files' = files]_vars

\* C5: an empty result is saved for a source as Processed only when the
\* listing was obtained (and none of its posts qualified), never after a
\* sentinel of the listing call or an exception caught by fetch_newsletter_posts.
C5_EmptyOnlyWhenNothingFound ==
  [][(pc = "save" /\ scraped = <<>> /\ status'[i] = "Processed"
        /\ files'[individual_output(args.urls, url)] = [header |-> TRUE, rows |-> <<>>])
       => listed.kind = "posts"]_vars

C6_InOrder ==
  /\ \A k \in DOMAIN status :
        IF k < i THEN status[k] \in Terminal ELSE status[k] = "Pending"
  /\ pc \in {"done", "crashed"} => i = Len(args.urls) + 1

\* C6: the sources are visited in list order; each entry leaves Pending
\* once, into Skipped, Processed or Failed, and is never revisited; after
\* an entry is handled, also when it failed, the loop goes on with the next
\* one, and a run that ends has handled every entry.
C6_EachSourceOnceInOrder ==
  /\ []C6_InOrder
  /\ [][run' = run =>
          \A k \in DOMAIN status :
             status'[k] # status[k] =>
               /\ k = i
               /\ status[k] = "Pending"
               /\ status'[k] \in Terminal
               /\ i' = i + 1
               /\ pc' = "loop"]_vars

\* the first entry failed and the second was processed all the same
C6_Witness ==
  /\ Len(status) = 2
  /\ status[1] = "Failed"
  /\ status[2] = "Processed"

IsFailure(x) == x # <<"ok">>

\* C7: func is never invoked more than max_retries times; a call whose
\* attempts all failed with a rate-limit failure returns 'Rate limited'
\* after exactly max_retries invocations (max_retries >= 1); a call whose
\* attempt k succeeded returns its value after exactly k invocations.
C7_RateLimitedExhaustion ==
  /\ Len(invocations) <= max_retries
  /\ rpc = "loop" => result = NoResult
  /\ (rpc = "returned" /\ max_retries >= 1
        /\ \A k \in DOMAIN invocations : is_rate_limit(invocations[k]))
       => (result = RateLimited /\ Len(invocations) = max_retries)
  /\ \A k \in DOMAIN invocations :
        invocations[k] = <<"ok">> =>
          (k = Len(invocations) /\ rpc = "returned" /\ result = Value(k))

\* every one of the 8 attempts was rate limited
C7_Witness ==
  /\ rpc = "returned"
  /\ max_retries = DEFAULT_MAX_RETRIES
  /\ Len(invocations) = DEFAULT_MAX_RETRIES
  /\ result = RateLimited

\* C8: the first failure that is not a rate-limit failure ends the call:
\* no invocation and no sleep follows it, and the result is 'Error: ' with
\* its description, also after rate-limited attempts.
C8_OtherFailureEndsCall ==
  \A k \in DOMAIN invocations :
     (IsFailure(invocations[k]) /\ ~is_rate_limit(invocations[k])) =>
        /\ k = Len(invocations)
        /\ rpc = "returned"
        /\ result = ErrorResult(invocations[k])
        /\ Len(sleeps) = k - 1

\* two rate-limited attempts, then a failure of another kind
C8_Witness ==
  /\ rpc = "returned"
  /\ Len(invocations) = 3
  /\ result.kind = "Error"
  /\ Len(sleeps) = 2

DayStart(t) == t - (t % Day)

Retained(post) == \E k \in DOMAIN kept : kept[k] = post

\* C10: a post is retained only if from <= t < to + 1 day; a post the scan
\* evaluates with t = from is retained, one with t = to + 1 day is not, and
\* one with t in the calendar day of to (and not before from) is retained.
C10_WindowBoundaries ==
  evaluated.kind = "aware" =>
    /\ Retained(evaluated.post) =>
         (args.from_date <= evaluated.t /\ evaluated.t < args.to_date + Day)
    /\ evaluated.t = args.from_date => Retained(evaluated.post)
    /\ evaluated.t = args.to_date + Day => ~Retained(evaluated.post)
    /\ (/\ args.from_date <= evaluated.t
        /\ DayStart(args.to_date) <= evaluated.t
        /\ evaluated.t < DayStart(args.to_date) + Day)
         => Retained(evaluated.post)

\* the step of the scan that handles post j of the listing (ProcessPost)
HandlesPost == pc = "scan" /\ evaluated'.post = j /\ evaluated.post # j

ScanGoesOn == IF j < posts THEN pc' = "scan" /\ j' = j + 1 ELSE pc' = "save"

\* what the reference does with a post, from what its metadata gave
Verdict(e) ==
  IF e.kind \notin {"aware", "naive"} THEN "drop"
  ELSE IF in_window(args.from_date, args.to_date, e.t) THEN "keep"
  ELSE IF e.t < args.from_date THEN "stop"
  ELSE "drop"

\* C11: with a cap of at least 1, every step of the scan is the step of the
\* reference: a post without usable metadata or date, or newer than the
\* window, is dropped and the scan goes on; a post in the window is kept and
\* the scan goes on unless the cap is reached; a post older than the window
\* start ends the scan; and the result is the kept posts in listing order.
C11_ScanIsReference ==
  /\ [](pc = "save" /\ listed.kind = "posts" =>
          /\ Len(scraped) = Len(kept)
          /\ \A k \in DOMAIN kept : scraped[k].post_id = Num(kept[k]))
  /\ [][(HandlesPost /\ args.max_posts >= 1) =>
          CASE Verdict(evaluated') = "drop" -> kept' = kept /\ ScanGoesOn
            [] Verdict(evaluated') = "stop" -> kept' = kept /\ pc' = "save"
            [] Verdict(evaluated') = "keep" ->
                 /\ kept' = Append(kept, j)
                 /\ IF Len(kept') >= args.max_posts
                    THEN pc' = "save" ELSE ScanGoesOn]_vars

\* C12: for every cap >= 0 the kept posts never outnumber the cap; once
\* the cap-th post is kept the scan is over and no later post was fetched;
\* and with cap = 2 every post in the window is kept until two are.
C12_CapBounds ==
  /\ [](/\ Len(kept) <= args.max_posts
        /\ (kept # <<>> /\ Len(kept) = args.max_posts) =>
              /\ pc # "scan"
              /\ \A x \in fetched : x <= kept[Len(kept)])
  /\ [][(HandlesPost /\ args.max_posts = 2
           /\ Verdict(evaluated') = "keep" /\ evaluated'.kind = "aware") =>
          /\ kept' = Append(kept, j)
          /\ Len(kept') = 2 => pc' = "save"]_vars

\* C13: every network operation of a run is made through
\* retry_with_backoff, the fetch of a profile page included.
C13_AllThroughBackoff ==
  \A op \in net : op.through = "retry_with_backoff"

\* the last post the scan handled was in the window and is not in the result
DroppedInWindow ==
  /\ evaluated.kind = "aware"
  /\ in_window(args.from_date, args.to_date, evaluated.t)
  /\ ~Retained(evaluated.post)

\* C14: no record carries a ratio that could not be computed, and a source
\* whose in-window post could not be enriched does not end Processed.
C14_EnrichmentFailureSurfaces ==
  /\ [](\A k \in DOMAIN all_posts :
           all_posts[k].likes_per_free_subscriber # Raised)
  /\ [][(pc = "save" /\ DroppedInWindow) => status'[i] # "Processed"]_vars

C15_CombinedAtEnd ==
  pc = "done" =>
    /\ (combined_output \in DOMAIN files) <=> (Len(args.urls) > 1)
    /\ Len(args.urls) > 1 =>
         files[combined_output] = [header |-> TRUE, rows |-> rows_of(all_posts)]

\* C15: a run that ends has written the combined file iff it had more than
\* one source, and the file holds the header and the aggregate, which is
\* made of the records of the Processed and Skipped sources only: the
\* records of a source that ends Failed are not in it.
C15_CombinedIsProcessedAndSkipped ==
  /\ []C15_CombinedAtEnd
  /\ [][(pc = "save" /\ status'[i] = "Failed") =>
          all_posts' \o scraped = all_posts]_vars

\* the dates of the command line are unusable
BadDates ==
  \/ args.from_date = BadDate
  \/ args.to_date = BadDate
  \/ args.from_date >= args.to_date

\* C16: a run whose start or end date is missing or unparseable, or whose
\* from is not before to, goes from its start to the configuration error
\* and nowhere else, with no network operation (no profile resolution
\* either) and no file written; and only such a run ends there.
C16_ConfigErrorBeforeAnyWork ==
  /\ BadDates => (pc \in {"args", "config_error"} /\ net = {} /\ files = <<>>)
  /\ pc = "config_error" => BadDates

\* --user with from = to: the profile was not fetched
C16_Witness ==
  /\ pc = "config_error"
  /\ args.user
  /\ args.urls # <<>>
  /\ args.from_date = args.to_date
  /\ net = {}
  /\ files = <<>>

\* C17: with force-rescrape no source is skipped, and the step that makes a
\* source Processed leaves its checkpoint holding the header and exactly
\* the records retained in this run.
C17_ForceRescrapeReplaces ==
  /\ [](args.force_rescrape => \A k \in DOMAIN status : status[k] # "Skipped")
  /\ [][(args.force_rescrape /\ pc = "save" /\ status'[i] = "Processed") =>
          /\ check_existing_newsletter_file(files', url)
          /\ files'[expected_filename(url)] =
               [header |-> TRUE, rows |-> rows_of(scraped)]]_vars

\* the name handed to sanitize_filename by the call
SanitizedInput ==
  IF call.fn = "extract_newsletter_name_from_url"
       /\ call.form \in {"sub", "handle"} /\ call.text = <<>>
  THEN substack_host ELSE call.text

LeavesNothing(name) == \A k \in DOMAIN name : name[k] \in Unsafe \cup Blank

\* C18: the identifier returned by sanitize_filename and by
\* extract_newsletter_name_from_url is not empty, is at most 50 characters
\* long, and is 'unknown' exactly when sanitization leaves nothing.
C18_NameBounded ==
  (ret.done /\ call.fn \in {"sanitize_filename", "extract_newsletter_name_from_url"})
    => /\ Len(ret.v) >= 1
       /\ Len(ret.v) <= 50
       /\ (ret.v = unknown) <=> LeavesNothing(SanitizedInput)

RatioCallDone == ret.done /\ call.fn = "calculate_likes_per_free_subscriber"

\* the count is a number once its commas are removed
NumericCount ==
  /\ \E k \in DOMAIN call.text : call.text[k] \in Digits
  /\ \A k \in DOMAIN call.text : call.text[k] \in Digits \cup {","}

CountValue == number(SelectSeq(call.text, LAMBDA c : c \in Digits))

Distance(a, b) == IF a >= b THEN a - b ELSE b - a

\* v is 100 * likes / n rounded to two decimals (h hundredths, the nearest
\* to the quotient, the even one of two equally near)
IsRatio(v, likes, n) ==
  /\ v.t = "float"
  /\ \E h \in 0..(10000 * MaxRatioLikes) :
       /\ v.v = ToString(h)
       /\ 2 * Distance(h * n, 10000 * likes) <= n
       /\ 2 * Distance(h * n, 10000 * likes) = n => h % 2 = 0

\* C19 as stated: UNKNOWN gives UNKNOWN, and every numeric count gives
\* round(100 * likes / count, 2).
C19_RatioForEveryNumericCount ==
  RatioCallDone =>
    /\ call.text = UNKNOWN => ret.v = Str("UNKNOWN")
    /\ NumericCount => IsRatio(ret.v, call.likes, CountValue)

\* C19 amended: UNKNOWN gives UNKNOWN without an error, every numeric count
\* other than zero gives round(100 * likes / count, 2), and a count of
\* zero raises (ZeroDivisionError).
C19_RatioForNonZeroCount ==
  RatioCallDone =>
    /\ call.text = UNKNOWN => ret.v = Str("UNKNOWN")
    /\ (NumericCount /\ CountValue # 0) => IsRatio(ret.v, call.likes, CountValue)
    /\ (NumericCount /\ CountValue = 0) => ret.v = Raised

\* 3 likes for 800 subscribers: 0.375 is rounded to 0.38
C19_Witness ==
  /\ RatioCallDone
  /\ call.text = <<"8", "0", "0">>
  /\ call.likes = 3
  /\ ret.v = [t |-> "float", v |-> "38"]

SameCheckpoint(k, m) ==
  expected_filename(args.urls[k]) = expected_filename(args.urls[m])

\* C20: at every point of a first run with several sources, every
\* Processed source has its checkpoint on disk, and the sources the next
\* invocation would skip (their checkpoint exists) are exactly the sources
\* that completed, up to sources that share a checkpoint.
C20_CheckpointsFollowCompletion ==
  (run = 1 /\ Len(args.urls) > 1) =>
    \A k \in DOMAIN status :
       /\ status[k] = "Processed" =>
            check_existing_newsletter_file(files, args.urls[k])
       /\ check_existing_newsletter_file(files, args.urls[k]) =>
            \E m \in DOMAIN status :
               SameCheckpoint(k, m) /\ status[m] \in {"Processed", "Skipped"}

\* C21: the aggregate changes only in a step that leaves the current source
\* in a terminal state, and the step that makes a source Failed leaves none
\* of its records in the aggregate.
C21_AggregateAfterTerminal ==
  /\ [][(run' = run /\ all_posts' # all_posts) => status'[i] \in Terminal]_vars
  /\ [][(run' = run /\ pc = "save" /\ status'[i] = "Failed") =>
          Len(all_posts') = Len(all_posts) - Len(scraped)]_vars

\* min(2^k, 60)
Backoff(k) == IF 2^k < 60 THEN 2^k ELSE 60

\* C22: the k-th sleep of a call (k from 0) is min(2^k, 60) seconds and
\* follows the k-th rate-limited attempt; no sleep follows the attempt the
\* call ends with; a call with N = 8 whose attempts are all rate limited
\* sleeps 1, 2, 4, 8, 16, 32, 60 seconds and returns.
C22_BackoffSleeps ==
  /\ \A k \in DOMAIN sleeps :
        /\ sleeps[k] = Backoff(k - 1)
        /\ is_rate_limit(invocations[k])
        /\ k < max_retries
  /\ rpc = "loop" => Len(sleeps) = Len(invocations)
  /\ (rpc = "returned" /\ invocations # <<>>) =>
        Len(sleeps) = Len(invocations) - 1
  /\ (rpc = "returned" /\ max_retries = 8 /\ result = RateLimited) =>
        sleeps = <<1, 2, 4, 8, 16, 32, 60>>

\* the default call, rate limited eight times, after its seven sleeps
C22_Witness ==
  /\ rpc = "returned"
  /\ max_retries = 8
  /\ result = RateLimited
  /\ sleeps = <<1, 2, 4, 8, 16, 32, 60>>

\* what the metadata of a post gave when it is unusable: a sentinel of
\* retry_with_backoff, nothing, no date, a date no layout accepts
Unusable == {"Rate limited", "Error", "empty", "missing", "None"}

\* C23: a post whose metadata is a sentinel or empty, or has no date or an
\* unparseable one, is skipped: the kept posts and the result are as
\* before, no early stop is recorded, and the scan goes on with the next
\* post of the listing (or ends with the listing).
C23_UnusablePostSkipped ==
  [][(HandlesPost /\ evaluated'.kind \in Unusable) =>
       /\ kept' = kept
       /\ stops' = stops
       /\ ScanGoesOn
       /\ IF j < posts THEN filtered_posts' = filtered_posts
                       ELSE scraped' = filtered_posts]_vars

\* the first post was kept, the second had an unparseable date, and the
\* scan is at the third with the cap of 2 not reached
C23_Witness ==
  /\ pc = "scan"
  /\ j = 3
  /\ args.max_posts = 2
  /\ kept = <<1>>
  /\ evaluated.post = 2
  /\ evaluated.kind = "None"
  /\ stops = <<>>

RunEnded == pc \in {"done", "crashed", "config_error", "no_urls"}

\* C24: a call of retry_with_backoff invokes func at most max_retries times
\* and returns; a scan never goes past the end of its listing; and every
\* run that starts ends, after one pass over its sources that leaves each of
\* them in a terminal state (a run stopped by a configuration error or an
\* empty source file ends before the pass).
C24_EveryRunTerminates ==
  /\ [](/\ Len(invocations) <= max_retries
        /\ j <= posts
        /\ i <= Len(args.urls) + 1
        /\ pc \in {"done", "crashed"} =>
             \A k \in DOMAIN status : status[k] \in Terminal)
  /\ (rpc = "loop") ~> (rpc = "returned")
  /\ \A r \in 1..MaxRuns :
        (run = r /\ pc = "args") ~> (run = r /\ RunEnded)

\* a second run over two sources has ended with both of them handled
C24_Witness ==
  /\ run = 2
  /\ pc = "done"
  /\ Len(status) = 2
  /\ \A k \in DOMAIN status : status[k] \in Terminal

\* a file of the checkpoint directory
IsCheckpoint(f) == f.dir = "substacks"

\* C25: every checkpoint on disk has its header, and a save of a
\* newsletter's posts leaves at the newsletter's checkpoint either the
\* header and all the posts scraped, or what was there before the save: a
\* save that is cut short never leaves a part of the file.
C25_CheckpointAllOrNothing ==
  /\ [](\A f \in DOMAIN files : IsCheckpoint(f) => files[f].header)
  /\ [][(pc = "save" /\ Len(args.urls) > 1) =>
          LET f == expected_filename(url)
          IN  f \in DOMAIN files' =>
                \/ files'[f] = [header |-> TRUE, rows |-> rows_of(scraped)]
                \/ f \in DOMAIN files /\ files'[f] = files[f]]_vars

\* C26: a first run over two urls of the same newsletter has ended: the
\* network was used for one of them at most, and no row is twice in the
\* combined file.
C26_SameNewsletterOnce ==
  (/\ run = 1
   /\ pc = "done"
   /\ Len(args.urls) = 2
   /\ normalize_substack_url(args.urls[1]) = normalize_substack_url(args.urls[2])) =>
    LET rows == files[combined_output].rows
    IN  /\ ~(\E a, b \in net : a.src = 1 /\ b.src = 2)
        /\ \A k, m \in 1..Len(rows) : rows[k] = rows[m] => k = m

====
